---- MODULE Spec2Model ----
(***************************************************************************)
(* Model of python-datamodel: the metaclass that resolves a record type's *)
(* configuration and builds its field registry (datamodel/abstract.py),   *)
(* the attribute interception installed on every record type, and the     *)
(* construction / validation pipeline and dynamic field API of BaseModel  *)
(* (datamodel/base.py).                                                    *)
(*                                                                         *)
(* One record type is declared per behaviour: the state holds the class    *)
(* statement's inputs (its own Meta block, the ancestor's Meta, the class  *)
(* body of the annotated names), the type's shared state (Meta,            *)
(* __columns__, __fields__, __dataclass_fields__) and the instance the     *)
(* caller currently holds (x = cls(...) rebinds it).                       *)
(***************************************************************************)
EXTENDS Integers, Sequences, FiniteSets, TLC

VARIABLES declared, body, ownMeta, baseMeta, Meta, columns, fields, dataclass_fields, inst, last, nops

vars == <<declared, body, ownMeta, baseMeta, Meta, columns, fields, dataclass_fields, inst, last, nops>>

(* ------------------------------ bounds -------------------------------- *)

\* number of calls made on the type and its instances after declaration
MaxOps == 3

(* ------------------------------ values -------------------------------- *)

\* A Python value: a tag, and for a mapping value the set of its keys.
V(t) == [tag |-> t, keys |-> {}]

None == V("None")

\* an error mapping field name -> error description, as built by __post_init__
Dict(S) == [tag |-> "dict", keys |-> S]

\* Raw construction inputs: None / MISSING / '' (empty), a value of the
\* declared type, a value the field-level validator rejects, a value the
\* type converter cannot convert.
RawValues == {None, V("good"), V("bad"), V("WRONG")}

\* Values written after construction: a plain value, or a callable.
WriteValues == {V("good"), V("callable")}

\* the fields named in the type's annotations, in declaration order
DeclNames == <<"name", "age">>

\* names that are not declared, used for dynamic fields / unknown attributes
DynNames == {"extra"}

DeclSet == {DeclNames[k] : k \in 1..Len(DeclNames)}

Put(f, k, v) == [x \in (DOMAIN f) \cup {k} |-> IF x = k THEN v ELSE f[x]]

InSeq(x, s) == \E k \in 1..Len(s) : s[k] = x

(* --------------------------- configuration ---------------------------- *)

\* the Meta keys that are modelled (the other annotated keys of Meta behave
\* like "name": they are never read by the code modelled here)
MetaKeys == {"name", "frozen", "strict"}

\* class Meta: the global default configuration
GlobalMeta == [name |-> "", frozen |-> "False", strict |-> "True"]

KeyValues(k) == IF k = "name" THEN {"o"} ELSE {"True", "False"}

\* a type's own "class Meta:" block: absent, or a plain class that sets some keys
NoBlock == [present |-> FALSE, keys |-> [x \in {} |-> ""]]

Blocks ==
    {NoBlock} \cup
    {[present |-> TRUE, keys |-> b] :
        b \in {c \in UNION {[S -> {"o", "True", "False"}] : S \in SUBSET MetaKeys} :
                  \A k \in DOMAIN c : c[k] \in KeyValues(k)}}

\* ModelMeta.__new__, configuration part: the type's own block is used as it
\* is (else the inherited Meta object), a missing frozen becomes False and
\* every other missing annotated key becomes None.
ResolveMeta(block, ancestor) ==
    LET m0 == IF block.present THEN block.keys ELSE ancestor
        m1 == IF "frozen" \in DOMAIN m0 THEN m0 ELSE Put(m0, "frozen", "False")
    IN [k \in MetaKeys |-> IF k \in DOMAIN m1 THEN m1[k] ELSE "None"]

\* resolved configurations of the ancestors a type is declared under:
\* BaseModel itself, and a lenient parent type that names itself
ParentBlocks == {NoBlock, [present |-> TRUE, keys |-> [name |-> "o", strict |-> "False", frozen |-> "False"]]}

Ancestors == {ResolveMeta(b, GlobalMeta) : b \in ParentBlocks}

(* ------------------------- field descriptors -------------------------- *)

\* datamodel.fields.Field(required=..., default=...)
Field(req, dflt) ==
    [name |-> "", required |-> req, primary |-> FALSE, nullable |-> TRUE,
     db_default |-> FALSE, default |-> dflt]

\* what the class body gives for an annotated name: nothing, a bare default
\* value, or an explicit Field
Absent == [given |-> "absent", value |-> None, field |-> Field(FALSE, None)]

Bare(v) == [given |-> "bare", value |-> v, field |-> Field(FALSE, None)]

Explicit(f) == [given |-> "field", value |-> None, field |-> f]

\* ModelMeta.__new__._initialize_fields for one annotated name
InitializeField(nm, a) ==
    LET df == IF a.given = "field" THEN a.field
              ELSE IF a.given = "bare" THEN Field(FALSE, a.value)
              ELSE Field(FALSE, None)
    IN [df EXCEPT !.name = nm]

\* ModelMeta.__new__._initialize_fields: the registry, in declaration order
InitializeFields(attrs) == [k \in 1..Len(DeclNames) |-> InitializeField(DeclNames[k], attrs[k])]

(* ------------------------ registry operations ------------------------- *)

ColIndex(cols, nm) == CHOOSE k \in 1..Len(cols) : cols[k].name = nm

\* cols[nm] = f on the ordered mapping: replaces in place or appends
SetColumn(cols, nm, f) ==
    IF \E k \in 1..Len(cols) : cols[k].name = nm
    THEN [cols EXCEPT ![ColIndex(cols, nm)] = f]
    ELSE Append(cols, f)

ColNames(cols) == [k \in 1..Len(cols) |-> cols[k].name]

\* the Field synthesized for a dynamic field
DynamicField(nm, v) == [Field(FALSE, v) EXCEPT !.name = nm]

(* ---------------------- collaborators (external) ---------------------- *)

\* datamodel.converters.parse_type: converts, or raises TypeError/ValueError
ParseRaises(v) == v.tag = "WRONG"

parse_type(v) == IF v.tag = "good" THEN V("good") ELSE v

\* datamodel.validation.validator: an error description, or nothing
validator(v) == v.tag = "bad"

\* the document decoder: loads raises ValueError on malformed text
LoadsRaises(doc) == ~doc.wellformed

\* which exceptions "except ValueError" catches
IsValueError(exc) == exc \in {"ValueError_primary", "ValueError_required", "ValueError_nullable", "ValueError_wrongtype", "ValueError_decode"}

(* ----------------------- attribute interception ----------------------- *)

\* The running state of one call on an instance: the instance's attributes,
\* the type's registry views, the exception raised so far ("ok" if none),
\* the field name the exception is about and the payload it carries.
Machine(attrs, cols, flds) ==
    [attrs |-> attrs, columns |-> cols, fields |-> flds, exc |-> "ok", name |-> "", payload |-> {}]

Raise(st, exc, nm) == [st EXCEPT !.exc = exc, !.name = nm]

\* _dc_method_setattr_ without the early return on a strict type: every
\* unregistered name written becomes a field
dc_method_setattr_registers_always(st, nm, value) ==
    IF Meta.frozen = "True" /\ ~InSeq(nm, st.fields)
    THEN Raise(st, "TypeError_frozen", nm)
    ELSE LET v == IF value.tag = "callable" THEN None ELSE value
             s1 == [st EXCEPT !.attrs = Put(st.attrs, nm, v)]
         IN IF ~InSeq(nm, st.fields)
            THEN [s1 EXCEPT !.columns = SetColumn(st.columns, nm, DynamicField(nm, v)),
                            !.fields = Append(st.fields, nm)]
            ELSE s1

\* _dc_method_setattr_(self, name, value)
dc_method_setattr(st, nm, value) ==
    IF Meta.frozen = "True" /\ ~InSeq(nm, st.fields)
    THEN Raise(st, "TypeError_frozen", nm)
    ELSE LET v == IF value.tag = "callable" THEN None ELSE value
             s1 == [st EXCEPT !.attrs = Put(st.attrs, nm, v)]
         IN IF ~InSeq(nm, st.fields)
            THEN IF Meta.strict = "True"
                 THEN s1
                 ELSE [s1 EXCEPT !.columns = SetColumn(st.columns, nm, DynamicField(nm, v)),
                                 !.fields = Append(st.fields, nm)]
            ELSE s1

\* attribute lookup: the instance's own attributes, then the class
\* attributes __errors__ = None and __valid__ = False set by create_dataclass
HasAttr(attrs, nm) == nm \in DOMAIN attrs \/ nm \in {"__errors__", "__valid__"}

GetAttr(attrs, nm) ==
    IF nm \in DOMAIN attrs THEN attrs[nm]
    ELSE IF nm = "__valid__" THEN V("False") ELSE None

\* BaseModel.is_empty
is_empty(v) == v.tag = "None"

\* BaseModel.is_valid
is_valid(attrs) == GetAttr(attrs, "__valid__").tag = "True"

\* BaseModel.get_errors
get_errors(attrs) == GetAttr(attrs, "__errors__")

(* ------------------------ construction pipeline ----------------------- *)

\* BaseModel._calculate_value for a field that is neither a nested record
\* nor a typing generic: default substitution on an empty value, else the
\* type converter
calculate_value(st, f) ==
    LET value == GetAttr(st.attrs, f.name)
    IN IF is_empty(value)
       THEN dc_method_setattr(st, f.name, f.default)
       ELSE IF ParseRaises(value)
            THEN Raise(st, "ValueError_wrongtype", f.name)
            ELSE dc_method_setattr(st, f.name, parse_type(value))

\* _validation with the required check made in every mode, not only on a
\* strict type
validation_required_in_every_mode(value, f) ==
    IF is_empty(value)
    THEN IF f.primary /\ ~f.db_default THEN "ValueError_primary"
         ELSE IF f.required
              THEN IF f.db_default THEN "none" ELSE "ValueError_required"
              ELSE IF ~f.nullable /\ Meta.strict = "True" THEN "ValueError_nullable"
                   ELSE "none"
    ELSE IF validator(value) THEN "error" ELSE "none"

\* BaseModel._validation: the exception it raises, or "error" when it
\* returns an error description, or "none"
validation(value, f) ==
    IF is_empty(value)
    THEN IF f.primary /\ ~f.db_default THEN "ValueError_primary"
         ELSE IF f.required /\ Meta.strict = "True"
              THEN IF f.db_default THEN "none" ELSE "ValueError_required"
              ELSE IF ~f.nullable /\ Meta.strict = "True" THEN "ValueError_nullable"
                   ELSE "none"
    ELSE IF validator(value) THEN "error" ELSE "none"

\* BaseModel.__post_init__, after the loop: the strict / lenient decision
post_init_decide(st, errors) ==
    IF errors # {}
    THEN IF Meta.strict = "True"
         THEN [Raise(st, "ValidationError", "") EXCEPT !.payload = errors]
         ELSE LET s1 == dc_method_setattr(st, "__errors__", Dict(errors))
              IN IF s1.exc # "ok" THEN s1
                 ELSE [s1 EXCEPT !.attrs = Put(s1.attrs, "__valid__", V("False"))]
    ELSE [st EXCEPT !.attrs = Put(st.attrs, "__valid__", V("True"))]

RECURSIVE post_init_loop(_, _, _)
\* BaseModel.__post_init__, the loop over __columns__ from position k
post_init_loop(st, k, errors) ==
    IF k > Len(st.columns) THEN post_init_decide(st, errors)
    ELSE LET f == st.columns[k]
         IN IF ~HasAttr(st.attrs, f.name) THEN Raise(st, "AttributeError", f.name)
            ELSE LET s1 == calculate_value(st, f)
                 IN IF s1.exc # "ok" THEN s1
                    ELSE LET r == validation(GetAttr(s1.attrs, f.name), f)
                         IN IF r \notin {"none", "error"} THEN Raise(s1, r, f.name)
                            ELSE post_init_loop(s1, k + 1,
                                    IF r = "error" THEN errors \cup {f.name} ELSE errors)

\* cls(**kwargs): the generated __init__ stores one raw value per declared
\* field, then __post_init__ runs
construct(raw) ==
    post_init_loop(Machine([n \in DeclSet |-> raw[n]], columns, fields), 1, {})

(* ------------------------------- state -------------------------------- *)

AttrNames == DeclSet \cup DynNames

\* the second field is never given an inconvertible value
Raws == {r \in [DeclSet -> RawValues] : r["age"].tag # "WRONG"}

NoRaw == [n \in DeclSet |-> None]

\* the mappings given to from_dict and held by documents: they give the
\* first field only
DocRaws == {r \in Raws : is_empty(r["age"])}

\* an input document: malformed text, or the text of a mapping
Docs == {[wellformed |-> FALSE, data |-> NoRaw]} \cup {[wellformed |-> TRUE, data |-> r] : r \in DocRaws}

NoInstance == [alive |-> FALSE, attrs |-> [x \in {} |-> None]]

\* the class-body inputs of the declared fields
NameDecls ==
    {Absent,
     Explicit([Field(TRUE, None) EXCEPT !.db_default = FALSE]),
     Explicit([Field(TRUE, None) EXCEPT !.db_default = TRUE]),
     Explicit([Field(FALSE, None) EXCEPT !.primary = TRUE]),
     Explicit([Field(FALSE, None) EXCEPT !.primary = TRUE, !.db_default = TRUE]),
     Explicit([Field(FALSE, None) EXCEPT !.nullable = FALSE])}

AgeDecls == {Bare(V("good")), Explicit(Field(TRUE, None))}

\* the class name, slugified and lower-cased
Title == "model"

\* what a call that renders no schema returns
NoDocument == [id |-> "", additionalProperties |-> "", properties |-> {}, required |-> <<>>]

\* the entry of one field in the "properties" of the schema document
schema_property(f) == [name |-> f.name, nullable |-> f.nullable, default |-> f.default]

\* BaseModel.schema(as_dict=True): the document is built from Meta and the
\* descriptor registry, and additionalProperties is the strict flag itself
schema(meta, cols) ==
    [id |-> IF meta.name \in {"", "None"} THEN Title ELSE meta.name,
     additionalProperties |-> meta.strict,
     properties |-> {schema_property(cols[k]) : k \in 1..Len(cols)},
     required |-> ColNames(SelectSeq(cols, LAMBDA f : f.required))]

\* the outcome of the last call: the operation, the attribute or field name
\* it was about, the value passed with it, the raw input of a construction,
\* the exception that left the call ("ok" if none), the exception it wraps,
\* the payload it carries and the schema document it returns
Outcome(op, nm, value, raw, exc, cause, payload) ==
    [op |-> op, name |-> nm, value |-> value, raw |-> raw, exc |-> exc, cause |-> cause, payload |-> payload,
     document |-> NoDocument]

\* own Meta blocks that set frozen and may set strict: one per behaviour of
\* the operations on the type
MainBlocks == {b \in Blocks : b.present /\ "frozen" \in DOMAIN b.keys /\ "name" \notin DOMAIN b.keys}

Bodies == {<<a1, a2>> : a1 \in NameDecls, a2 \in AgeDecls}

NoMeta == [k \in MetaKeys |-> "undeclared"]

\* the class statement is about to run
Undeclared(blocks, ancestors) ==
    /\ declared = FALSE
    /\ ownMeta \in blocks
    /\ baseMeta \in ancestors
    /\ body \in Bodies
    /\ Meta = NoMeta
    /\ columns = <<>>
    /\ fields = <<>>
    /\ dataclass_fields = <<>>
    /\ inst = NoInstance
    /\ last = Outcome("none", "", None, NoRaw, "ok", "ok", {})
    /\ nops = 0

Init == Undeclared(MainBlocks, {GlobalMeta})

\* every own block under every ancestor
InitMeta == Undeclared(Blocks, Ancestors)

(* ------------------------------ actions ------------------------------- *)

\* ModelMeta.__new__: the class statement runs
Declare ==
    /\ ~declared
    /\ declared' = TRUE
    /\ Meta' = ResolveMeta(ownMeta, baseMeta)
    /\ columns' = InitializeFields(body)
    /\ fields' = ColNames(InitializeFields(body))
    /\ dataclass_fields' = ColNames(InitializeFields(body))
    /\ last' = Outcome("declare", "", None, NoRaw, "ok", "ok", {})
    /\ UNCHANGED <<body, ownMeta, baseMeta, inst, nops>>

\* one more call is made on the declared type
Tick ==
    /\ declared
    /\ nops < MaxOps
    /\ nops' = nops + 1

\* the effect of cls(**raw) called through entry point op, where wrapped is
\* the exception leaving the entry point
Constructed(op, raw, st, wrapped) ==
    /\ Tick
    /\ columns' = st.columns
    /\ fields' = st.fields
    /\ inst' = IF st.exc = "ok" THEN [alive |-> TRUE, attrs |-> st.attrs] ELSE inst
    /\ last' = Outcome(op, st.name, None, raw, wrapped, st.exc, st.payload)
    /\ UNCHANGED <<declared, body, ownMeta, baseMeta, Meta, dataclass_fields>>

\* x = cls(**raw)
Construct(raw) ==
    LET st == construct(raw)
    IN Constructed("construct", raw, st, st.exc)

\* BaseModel.from_dict
from_dict(raw) ==
    LET st == construct(raw)
    IN Constructed("from_dict", raw, st,
                   IF IsValueError(st.exc) THEN "RuntimeError_dict" ELSE st.exc)

\* BaseModel.from_json
from_json(doc) ==
    IF LoadsRaises(doc)
    THEN /\ Tick
         /\ last' = Outcome("from_json", "", None, doc.data, "RuntimeError_json", "ValueError_decode", {})
         /\ UNCHANGED <<declared, body, ownMeta, baseMeta, Meta, columns, fields, dataclass_fields, inst>>
    ELSE LET st == construct(doc.data)
         IN Constructed("from_json", doc.data, st,
                        IF IsValueError(st.exc) THEN "RuntimeError_json" ELSE st.exc)

\* the effect of a call on the instance that ends in machine state st
Called(op, nm, value, st) ==
    /\ columns' = st.columns
    /\ fields' = st.fields
    /\ inst' = [inst EXCEPT !.attrs = st.attrs]
    /\ last' = Outcome(op, nm, value, NoRaw, st.exc, st.exc, {})

\* x.nm = value   (setattr(x, nm, value))
SetAttr(nm, value) ==
    /\ Tick
    /\ inst.alive
    /\ Called("setattr", nm, value, dc_method_setattr(Machine(inst.attrs, columns, fields), nm, value))
    /\ UNCHANGED <<declared, body, ownMeta, baseMeta, Meta, dataclass_fields>>

\* __dataclass_fields__[nm] = f
SetDataclassField(dcf, nm) == IF InSeq(nm, dcf) THEN dcf ELSE Append(dcf, nm)

\* BaseModel.add_field (a class method)
add_field(nm, value) ==
    /\ Tick
    /\ IF Meta.strict = "True"
       THEN /\ last' = Outcome("add_field", nm, value, NoRaw, "TypeError_strict", "TypeError_strict", {})
            /\ UNCHANGED <<columns, dataclass_fields>>
       ELSE /\ last' = Outcome("add_field", nm, value, NoRaw, "ok", "ok", {})
            /\ IF nm # "__errors__"
               THEN /\ columns' = SetColumn(columns, nm, DynamicField(nm, value))
                    /\ dataclass_fields' = SetDataclassField(dataclass_fields, nm)
               ELSE UNCHANGED <<columns, dataclass_fields>>
    /\ UNCHANGED <<declared, body, ownMeta, baseMeta, Meta, fields, inst>>

\* BaseModel.create_field, as a machine state and the new __dataclass_fields__
create_field_st(attrs, nm, value) ==
    IF Meta.strict = "True"
    THEN Raise(Machine(attrs, columns, fields), "TypeError_strict", nm)
    ELSE IF nm # "__errors__"
         THEN dc_method_setattr(
                  Machine(attrs, SetColumn(columns, nm, DynamicField(nm, value)), fields),
                  nm, value)
         ELSE Machine(attrs, columns, fields)

create_field_dcf(nm) ==
    IF Meta.strict # "True" /\ nm # "__errors__"
    THEN SetDataclassField(dataclass_fields, nm)
    ELSE dataclass_fields

\* BaseModel.create_field
create_field(nm, value) ==
    /\ Tick
    /\ inst.alive
    /\ Called("create_field", nm, value, create_field_st(inst.attrs, nm, value))
    /\ dataclass_fields' = create_field_dcf(nm)
    /\ UNCHANGED <<declared, body, ownMeta, baseMeta, Meta>>

\* BaseModel.set
set(nm, value) ==
    /\ Tick
    /\ inst.alive
    /\ IF ~InSeq(nm, ColNames(columns))
       THEN IF nm # "__errors__" /\ Meta.strict = "False"
            THEN /\ Called("set", nm, value, create_field_st(inst.attrs, nm, value))
                 /\ dataclass_fields' = create_field_dcf(nm)
            ELSE /\ last' = Outcome("set", nm, value, NoRaw, "ok", "ok", {})
                 /\ UNCHANGED <<columns, fields, dataclass_fields, inst>>
       ELSE /\ Called("set", nm, value, dc_method_setattr(Machine(inst.attrs, columns, fields), nm, value))
            /\ UNCHANGED dataclass_fields
    /\ UNCHANGED <<declared, body, ownMeta, baseMeta, Meta>>

\* cls.schema(as_dict=True)
Schema ==
    /\ Tick
    /\ last' = [Outcome("schema", "", None, NoRaw, "ok", "ok", {}) EXCEPT !.document = schema(Meta, columns)]
    /\ UNCHANGED <<declared, body, ownMeta, baseMeta, Meta, columns, fields, dataclass_fields, inst>>

Next ==
    \/ Declare
    \/ Schema
    \/ \E raw \in Raws : Construct(raw)
    \/ \E raw \in DocRaws : from_dict(raw)
    \/ \E doc \in Docs : from_json(doc)
    \/ \E nm \in AttrNames, value \in WriteValues : SetAttr(nm, value)
    \/ \E nm \in AttrNames, value \in WriteValues : add_field(nm, value)
    \/ \E nm \in AttrNames, value \in WriteValues : create_field(nm, value)
    \/ \E nm \in AttrNames, value \in WriteValues : set(nm, value)

Spec == Init /\ [][Next]_vars

\* type declaration alone, over every own block and ancestor
SpecMeta == InitMeta /\ [][Declare]_vars

(* ------------------------------ claims -------------------------------- *)

\* the declared field nm has no value at validation time: the raw value is
\* empty and so is the default substituted for it
Missing(raw, f) == f.name \in DeclSet /\ is_empty(raw[f.name]) /\ is_empty(f.default)

\* no raw value makes the type converter raise (coercion errors are fatal
\* to construction in every mode)
Convertible(raw) == \A n \in DeclSet : ~ParseRaises(raw[n])

\* the validation error kinds of a field: missing primary key, missing
\* required field, non-nullable violation, delegated type mismatch
FailsValidation(raw, f) ==
    \/ /\ Missing(raw, f)
       /\ \/ f.primary /\ ~f.db_default
          \/ f.required /\ ~f.db_default
          \/ ~f.nullable
    \/ f.name \in DeclSet /\ validator(raw[f.name])

Failing(raw) == {columns[k].name : k \in {j \in 1..Len(columns) : FailsValidation(raw, columns[j])}}

\* C1: on a strict type, constructing with a missing value for a required
\* field without db_default fails with a validation error whose payload
\* contains that field name.
C1_StrictMissingRequiredPayload ==
    \A k \in 1..Len(columns) :
        ( /\ last.op = "construct"
          /\ Meta.strict = "True"
          /\ Convertible(last.raw)
          /\ columns[k].required /\ ~columns[k].db_default
          /\ Missing(last.raw, columns[k])
          /\ Failing(last.raw) = {columns[k].name} )
        => (last.exc = "ValidationError" /\ columns[k].name \in last.payload)

\* C2 as stated: on a type with strict=false, constructing with a missing
\* value for a required field yields an instance with is_valid() false and
\* the field name in get_errors().
C2_LenientMissingRequiredRecorded ==
    \A k \in 1..Len(columns) :
        ( /\ last.op = "construct"
          /\ Meta.strict = "False"
          /\ last.raw = NoRaw
          /\ ColNames(columns) = DeclNames
          /\ columns[k].required /\ ~columns[k].primary
          /\ Missing(last.raw, columns[k]) )
        => ( /\ last.exc = "ok"
             /\ ~is_valid(inst.attrs)
             /\ columns[k].name \in get_errors(inst.attrs).keys )

\* C2 amended: on a type with strict=false a missing value for a required
\* field is not a validation error: construction never fails with, nor
\* records, a missing-required-field error for it; when an instance is
\* returned is_valid() is false only if another field failed type
\* validation, and get_errors() then does not contain the required field.
C2_LenientMissingRequiredIgnored ==
    \A k \in 1..Len(columns) :
        ( /\ last.op = "construct"
          /\ Meta.strict = "False"
          /\ columns[k].required
          /\ Missing(last.raw, columns[k]) )
        => ( /\ last.exc \notin {"ValueError_required", "ValidationError"}
             /\ last.exc = "ok" =>
                  /\ is_valid(inst.attrs) <=> (\A n \in DeclSet : ~validator(last.raw[n]))
                  /\ ~is_valid(inst.attrs) => columns[k].name \notin get_errors(inst.attrs).keys )

\* a lenient type was constructed with a required field missing, and the
\* instance came back valid
C2_Witness ==
    /\ last.op = "construct"
    /\ Meta.strict = "False"
    /\ last.exc = "ok"
    /\ is_valid(inst.attrs)
    /\ \E k \in 1..Len(columns) : columns[k].required /\ Missing(last.raw, columns[k])

Unregistered(nm) == ~InSeq(nm, fields) /\ ~InSeq(nm, ColNames(columns))

\* the value an attribute write stores
Stored(value) == IF value.tag = "callable" THEN None ELSE value

\* C4: on a non-frozen type with strict=false, writing an unregistered
\* attribute name succeeds and appends a descriptor (required=false,
\* default = written value) to the shared registry; an instance of the type
\* constructed afterwards is constructed successfully and has that name as
\* a registered field whose value is the written default.
C4_LenientDynamicField ==
    [][ /\ ( /\ last'.op = "setattr"
             /\ Meta.frozen = "False" /\ Meta.strict = "False"
             /\ Unregistered(last'.name) )
           => ( /\ last'.exc = "ok"
                /\ columns' = Append(columns, DynamicField(last'.name, Stored(last'.value)))
                /\ fields' = Append(fields, last'.name) )
        /\ \A nm \in DynNames :
             ( /\ last'.op = "construct"
               /\ Meta.frozen = "False" /\ Meta.strict = "False"
               /\ InSeq(nm, fields) /\ InSeq(nm, ColNames(columns))
               /\ \A n \in DeclSet : last'.raw[n].tag = "good" )
             => ( /\ last'.exc = "ok"
                  /\ nm \in DOMAIN inst'.attrs
                  /\ inst'.attrs[nm] = columns[ColIndex(columns, nm)].default )
      ]_vars

\* C5: on a strict type, when two or more fields fail validation the single
\* construction failure carries an error mapping with an entry for every
\* failing field.
C5_StrictAggregatesAllErrors ==
    ( /\ last.op = "construct"
      /\ Meta.strict = "True"
      /\ Convertible(last.raw)
      /\ Cardinality(Failing(last.raw)) >= 2 )
    => (last.exc = "ValidationError" /\ Failing(last.raw) \subseteq last.payload)

\* the fields failing with an error kind that is checked in every mode: a
\* missing primary key or a delegated type mismatch
FailingInEveryMode(raw) ==
    {columns[k].name : k \in {j \in 1..Len(columns) :
        \/ Missing(raw, columns[j]) /\ columns[j].primary /\ ~columns[j].db_default
        \/ columns[j].name \in DeclSet /\ validator(raw[columns[j].name])}}

\* C6: on a type with strict=false, frozen or not, no validation error of
\* any of the four kinds prevents construction: an instance is returned and
\* every failing field is recorded in its __errors__ mapping.  Stated here
\* for the constructions in which every failing field fails with a missing
\* primary key or a type mismatch.
C6_LenientRecordsAllErrors ==
    ( /\ last.op = "construct"
      /\ Meta.strict = "False"
      /\ Convertible(last.raw)
      /\ ColNames(columns) = DeclNames
      /\ Failing(last.raw) # {}
      /\ Failing(last.raw) = FailingInEveryMode(last.raw) )
    => ( /\ last.exc = "ok"
         /\ Failing(last.raw) \subseteq get_errors(inst.attrs).keys )

\* C7: at the construction boundary malformed document text surfaces as
\* the wrapped decode failure, and a coercion or validation failure raised
\* while constructing from a well-formed document never surfaces as that
\* decode failure.
C7_DecodeFailureDistinct ==
    /\ (last.op = "from_json" /\ last.cause = "ValueError_decode") => last.exc = "RuntimeError_json"
    /\ (last.op \in {"from_json", "from_dict"} /\ last.exc = "RuntimeError_json")
          => last.cause = "ValueError_decode"

\* the value the merging rule gives key k: the own block's, else the
\* ancestor's resolved value, else the global default
Merged(k) ==
    IF ownMeta.present /\ k \in DOMAIN ownMeta.keys THEN ownMeta.keys[k]
    ELSE IF baseMeta[k] # "None" THEN baseMeta[k]
    ELSE GlobalMeta[k]

\* C8: every configuration key absent from the type's own block takes the
\* ancestor's resolved value, a key still absent takes the global default
\* (strict = true, frozen = false), and the resolved configuration is never
\* null.
C8_MetaMerged ==
    declared => \A k \in MetaKeys : Meta[k] = Merged(k) /\ Meta[k] # "None"

C10_StrictRegistryImmutable ==
    (declared /\ Meta.strict = "True") =>
        /\ ColNames(columns) = DeclNames
        /\ fields = DeclNames
        /\ (last.op = "setattr" /\ Meta.frozen = "False" /\ last.name \notin DeclSet)
              => ( /\ last.exc = "ok"
                   /\ last.name \in DOMAIN inst.attrs
                   /\ inst.attrs[last.name] = Stored(last.value) )

\* an unregistered name was written on an instance of a non-frozen strict type
C10_Witness ==
    /\ declared /\ Meta.strict = "True" /\ Meta.frozen = "False"
    /\ last.op = "setattr" /\ last.name \in DynNames /\ last.exc = "ok"
    /\ inst.attrs[last.name] = V("good")

\* C11: for every type with strict=true the rendered schema document has
\* additionalProperties = false, and rendering the schema twice in a row
\* (no call, hence no field registration, in between) yields identical
\* documents.
C11_SchemaStrictAndIdempotent ==
    [][last'.op = "schema" =>
          /\ Meta.strict = "True" => last'.document.additionalProperties = "False"
          /\ last.op = "schema" => last'.document = last.document]_vars

\* the calls that construct an instance
Constructions == {"construct", "from_dict", "from_json"}

\* the calls that register a dynamic field explicitly
Registrations == {"setattr", "set", "create_field", "add_field"}

\* C12: constructing an instance, on a strict or lenient type and with or
\* without validation errors, leaves the registry's field names and the
\* type's field-name list as they were; the shared registry changes only
\* by an explicit dynamic field registration on a lenient type.
C12_ConstructionLeavesRegistry ==
    [][ /\ (declared /\ Meta.strict \in {"True", "False"} /\ last'.op \in Constructions)
            => (ColNames(columns') = ColNames(columns) /\ fields' = fields)
        /\ (declared /\ Meta.strict \in {"True", "False"} /\ (columns' # columns \/ fields' # fields))
            => (last'.op \in Registrations /\ Meta.strict = "False") ]_vars

\* the set of the elements of a sequence
Range(s) == {s[k] : k \in 1..Len(s)}

\* C13: after any sequence of add_field, create_field, set calls and
\* attribute writes on a type, the set of names in the field-name list
\* (__fields__) equals the key set of the descriptor registry
\* (__columns__), and no name occurs twice in the field-name list.
C13_RegistryViewsConsistent ==
    (declared /\ Meta.strict \in {"True", "False"}) =>
        /\ Range(fields) = Range(ColNames(columns))
        /\ \A i, j \in 1..Len(fields) : fields[i] = fields[j] => i = j

====
